---- MODULE Spec2Model ----
(***************************************************************************)
(* Viewport-driven station synchronisation of the MapWrapper component     *)
(* (src/src/components/MapWrapper.tsx): the debounced / immediate station  *)
(* fetches, the merge of their responses into stationsCache and the        *)
(* teardown of the component.                                              *)
(*                                                                         *)
(* Delays are in milliseconds.  Coordinates are integers in units of 1e-7   *)
(* degrees, so that toFixed(6) really rounds.                              *)
(***************************************************************************)
EXTENDS Integers, Sequences, FiniteSets, Bags, TLC

VARIABLES
    phase,                \* "init" (constructed), "mounted", "unmounted"
    useRealData,          \* prop useRealData
    mapZoom,              \* state mapZoom (initially the zoom prop)
    showChargingStations, \* state showChargingStations
    stationsCache,        \* state stationsCache: cache key -> station
    isLoading,            \* state isLoading
    error,                \* state error ("null" when no message is shown)
    debounceTimer,        \* the pending timer of debounceTimerRef: <<>> or <<t>>
    loadingTimers,        \* number of pending loadingTimer timeouts
    inflight,             \* bag of the station queries awaiting their response
    nMoves                \* history: number of onMove events so far

\* The route planner page (src/src/app/routes/page.tsx) and the route service
\* (src/src/services/mapbox/evRouting.ts).
VARIABLES
    route,                \* state route: <<>> (null) or <<the EvRoute>>
    routeError,           \* state routeError ("null" when no message is shown)
    isCalculatingRoute,   \* state isCalculatingRoute
    routePending,         \* number of calculateRoute calls awaiting their result
    providerResponse,     \* history: <<>> or <<the response handled last>>
    routeResult,          \* history: what calculateEvRoute returned last
    nRouteCalls,          \* history: number of calculateRoute calls so far
    pendingCalls,         \* history: the calls awaiting their result, by number
    routeCall             \* history: the call whose result route holds (0: none)

mapVars == <<phase, useRealData, mapZoom, showChargingStations,
             stationsCache, isLoading, error, debounceTimer, loadingTimers,
             inflight, nMoves>>

routeVars == <<route, routeError, isCalculatingRoute, routePending,
               providerResponse, routeResult, nRouteCalls, pendingCalls,
               routeCall>>

\* The GET handler of /api/routes/ev (src/src/app/api/routes/ev/route.ts).
VARIABLES
    connectorPc,          \* "idle", or "sent" once the provider URL is built
    connectorTypes,       \* const connectorTypes: <<>> (null) or <<its split>>
    evConnectorTypes,     \* the ev_connector_types put into the provider URL
    warnings              \* the console.warn output of the request

connectorVars == <<connectorPc, connectorTypes, evConnectorTypes, warnings>>

\* The map view of the route planner page (updateMapView of page.tsx).
VARIABLES
    pageMapZoom,          \* state mapZoom of RoutesPage
    distance              \* history: <<>> or <<the distance zoomed for last>>

zoomVars == <<pageMapZoom, distance>>

\* The session manager of src/src/services/searchService.ts and the two
\* LocationSearch inputs of the page (src/src/components/LocationSearch.tsx).
\* The per-input variables are functions on SearchInputs.
VARIABLES
    sessionToken,         \* SearchSessionManager.sessionToken (a serial number)
    searchText,           \* state searchText of each input
    suggestions,          \* state suggestions of each input
    showSuggestions,      \* state showSuggestions of each input
    searchIsLoading,      \* state isLoading of each input
    selectedLocation,     \* state selectedLocation: <<>> (null) or <<mapbox_id>>
    searchTimer,          \* the pending timer of each debounceTimerRef
    suggestCalls,         \* the suggest requests awaiting their response
    retrieveCalls,        \* the retrieve requests awaiting their response
    nEdits,               \* history: number of onChange events so far
    nSelects              \* history: number of suggestion clicks so far

searchVars == <<sessionToken, searchText, suggestions, showSuggestions,
                searchIsLoading, selectedLocation, searchTimer, suggestCalls,
                retrieveCalls, nEdits, nSelects>>

vars == <<mapVars, routeVars, connectorVars, zoomVars, searchVars>>

\* ---------------------------------------------------------------- bounds
MaxMoves == 2
MaxBatch == 2

\* ---------------------------------------------------- program constants
ZoomThreshold == 12
DebounceDelay == 800
LoadingDelay == 300
SearchRadius == 50

CenterProp == "c0"
Centers == {"c0", "c1"}
Zooms == {11, 12}

NoError == "null"
FetchError == "Failed to fetch charging stations. Please try again later."

\* Stations the provider may return: two records of one id whose latitudes
\* differ only beyond the sixth decimal (and whose other fields differ), and one
\* whose latitude rounds to another value.
Stations ==
    { [id |-> "A", lat |-> 14, lng |-> -4, name |-> "x"],
      [id |-> "A", lat |-> 12, lng |-> -4, name |-> "y"],
      [id |-> "A", lat |-> 15, lng |-> -4, name |-> "z"] }

Batches == UNION { [1..n -> Stations] : n \in 0..MaxBatch }

\* What the awaited fetch() can do: a 2xx response with a body, or a failure
\* (network error or non-2xx response).
Outcomes == { [ok |-> TRUE, body |-> b] : b \in Batches }
            \cup { [ok |-> FALSE, body |-> <<>>] }

\* ------------------------------------------------------- pure functions
Abs(x) == IF x < 0 THEN -x ELSE x

\* Number.prototype.toFixed(6) of a coordinate given in 1e-7 degrees: the sign
\* is kept (also for a value that rounds to zero) and the magnitude is rounded
\* to the nearest 1e-6, ties upwards.
ToFixed6(x) == <<x < 0, (Abs(x) + 5) \div 10>>

\* locationHash of a station
LocationHash(station) == <<ToFixed6(station.lat), ToFixed6(station.lng)>>

\* A key built from the coordinates as they are, without rounding.
CacheKeyUnrounded(station) ==
    <<station.id, <<<<station.lat < 0, Abs(station.lat)>>,
                    <<station.lng < 0, Abs(station.lng)>>>>>>

\* cacheKey of a station
CacheKey(station) == <<station.id, LocationHash(station)>>

EmptyCache == [k \in {} |-> k]

\* obj[key] = value on a plain object
Put(obj, key, value) ==
    [k \in DOMAIN obj \cup {key} |-> IF k = key THEN value ELSE obj[k]]

\* The forEach over the fetched stations: newStations, built against the
\* stationsCache object the callback closed over.
RECURSIVE NewStations(_, _, _)
NewStations(closure, batch, acc) ==
    IF batch = <<>> THEN acc
    ELSE LET station == Head(batch)
             cacheKey == CacheKey(station)
         IN  NewStations(closure, Tail(batch),
                         IF cacheKey \notin DOMAIN closure
                         THEN Put(acc, cacheKey, station)
                         ELSE acc)

\* An updater that forgets the previous entries.
SpreadNewOnly(prevCache, newStations) == newStations

\* The updater prevCache => ({...prevCache, ...newStations})
SpreadMerge(prevCache, newStations) ==
    [k \in DOMAIN prevCache \cup DOMAIN newStations |->
        IF k \in DOMAIN newStations THEN newStations[k] ELSE prevCache[k]]

\* A cacheUpdated flag that starts out true.
CacheUpdatedAlways(closure, batch) == TRUE

\* cacheUpdated after the forEach
CacheUpdated(closure, batch) ==
    DOMAIN NewStations(closure, batch, EmptyCache) # {}

\* The merge of one response: setStationsCache is called only if cacheUpdated.
MergeStations(cache, closure, batch) ==
    IF CacheUpdated(closure, batch)
    THEN SpreadMerge(cache, NewStations(closure, batch, EmptyCache))
    ELSE cache

\* fetchChargingStations: the body of a 2xx response, [] on any failure
FetchChargingStations(outcome) == IF outcome.ok THEN outcome.body ELSE <<>>

\* Whether the promise of fetchChargingStations rejects: its own try/catch
\* turns the network error and the error it throws on a non-2xx response into
\* the result [], so it never does.
FetchChargingStationsThrows(outcome) == FALSE

\* The failed outcome of the awaited fetch().
Failure == [ok |-> FALSE, body |-> <<>>]

\* A station query as issued by fetchStations, with the stationsCache object
\* its callback closed over (stale is history: whether a newer viewport change
\* at zoom >= 12 has arrived since the query was issued).
Query(center, radius, immediate, closure) ==
    [center |-> center, radius |-> radius, immediate |-> immediate,
     closure |-> closure, stale |-> FALSE]

\* A fetchStations that leaves the pending timer alone.
ClearNothing(timer) == timer

\* clearTimeout(debounceTimerRef.current)
ClearDebounce(timer) == <<>>

\* A cleanup that leaves the timer running.
CleanupKeepsTimer(timer) == timer

\* The function the unmount effect returns: it clears the pending debounce
\* timer, if there is one.
Cleanup(timer) == IF timer # <<>> THEN ClearDebounce(timer) ELSE timer

\* The queries in flight form a bag: two identical queries may be pending.
Issue(qs, q) == qs (+) SetToBag({q})
Complete(qs, q) == qs (-) SetToBag({q})
InFlight == BagToSet(inflight)
NumInFlight == BagCardinality(inflight)

\* History: a viewport change to newCenter supersedes the pending queries for
\* any other centre.
RECURSIVE MarkStaleFrom(_, _, _)
MarkStaleFrom(qs, todo, newCenter) ==
    IF todo = {} THEN EmptyBag
    ELSE LET q == CHOOSE x \in todo : TRUE
             m == IF q.center # newCenter THEN [q EXCEPT !.stale = TRUE] ELSE q
             one == [x \in {m} |-> qs[q]]
         IN  one (+) MarkStaleFrom(qs, todo \ {q}, newCenter)
MarkStale(qs, newCenter) == MarkStaleFrom(qs, BagToSet(qs), newCenter)

\* The two inputs of the page: "Start Location" and "Destination".
SearchInputs == {"start", "end"}

\* ------------------------------------------------------------------ Init
Init ==
    /\ phase = "init"
    /\ useRealData \in BOOLEAN
    /\ mapZoom \in Zooms
    /\ showChargingStations = TRUE
    /\ stationsCache = EmptyCache
    /\ isLoading = FALSE
    /\ error = NoError
    /\ debounceTimer = <<>>
    /\ loadingTimers = 0
    /\ inflight = EmptyBag
    /\ nMoves = 0
    /\ route = <<>>
    /\ routeError = "null"
    /\ isCalculatingRoute = FALSE
    /\ routePending = 0
    /\ providerResponse = <<>>
    /\ routeResult = <<>>
    /\ nRouteCalls = 0
    /\ pendingCalls = {}
    /\ routeCall = 0
    /\ connectorPc = "idle"
    /\ connectorTypes = <<>>
    /\ evConnectorTypes = <<>>
    /\ warnings = <<>>
    /\ pageMapZoom = 15
    /\ distance = <<>>
    /\ sessionToken = 1
    /\ searchText = [input \in SearchInputs |-> <<>>]
    /\ suggestions = [input \in SearchInputs |-> <<>>]
    /\ showSuggestions = [input \in SearchInputs |-> FALSE]
    /\ searchIsLoading = [input \in SearchInputs |-> FALSE]
    /\ selectedLocation = [input \in SearchInputs |-> <<>>]
    /\ searchTimer = [input \in SearchInputs |-> <<>>]
    /\ suggestCalls = {}
    /\ retrieveCalls = {}
    /\ nEdits = 0
    /\ nSelects = 0

\* --------------------------------------------------------------- actions

\* First render and the mount effect: fetchStations(centerLat, centerLng,
\* searchRadius, true) when useRealData.
Mount ==
    /\ phase = "init"
    /\ phase' = "mounted"
    /\ IF useRealData
       THEN /\ debounceTimer' = ClearDebounce(debounceTimer)
            /\ isLoading' = TRUE
            /\ error' = NoError
            /\ inflight' = Issue(inflight,
                  Query(CenterProp, SearchRadius, TRUE, stationsCache))
       ELSE UNCHANGED <<debounceTimer, isLoading, error, inflight>>
    /\ UNCHANGED <<useRealData, mapZoom, showChargingStations,
                   stationsCache, loadingTimers, nMoves>>
    /\ UNCHANGED <<routeVars, connectorVars, zoomVars, searchVars>>

\* handleMapMove(newCenter, newZoom), called from the map's onMove.  At
\* newZoom >= 12 it calls fetchStations(lat, lng, searchRadius), whose
\* non-immediate branch replaces the debounce timer and starts a loadingTimer.
HandleMapMove(newCenter, newZoom) ==
    /\ phase = "mounted"
    /\ nMoves < MaxMoves
    /\ nMoves' = nMoves + 1
    /\ mapZoom' = newZoom
    /\ inflight' = IF newZoom >= ZoomThreshold
                   THEN MarkStale(inflight, newCenter) ELSE inflight
    /\ IF newZoom >= ZoomThreshold /\ useRealData
       THEN /\ loadingTimers' = loadingTimers + 1
            /\ debounceTimer' =
                  <<[center |-> newCenter, radius |-> SearchRadius,
                     closure |-> stationsCache]>>
       ELSE UNCHANGED <<loadingTimers, debounceTimer>>
    /\ UNCHANGED <<phase, useRealData, showChargingStations, stationsCache,
                   isLoading, error>>
    /\ UNCHANGED <<routeVars, connectorVars, zoomVars, searchVars>>

\* handleToggleChargingStations
HandleToggleChargingStations ==
    /\ phase = "mounted"
    /\ showChargingStations' = ~showChargingStations
    /\ UNCHANGED <<phase, useRealData, mapZoom, stationsCache, isLoading,
                   error, debounceTimer, loadingTimers, inflight, nMoves>>
    /\ UNCHANGED <<routeVars, connectorVars, zoomVars, searchVars>>

\* A loadingTimer timeout (300 ms after the viewport change that set it):
\* setIsLoading(true), which has no effect once unmounted.  Nothing clears a
\* loadingTimer but the debounce callback of the same call.
LoadingTimerFires ==
    /\ loadingTimers > 0
    /\ loadingTimers' = loadingTimers - 1
    /\ isLoading' = IF phase = "mounted" THEN TRUE ELSE isLoading
    /\ UNCHANGED <<phase, useRealData, mapZoom, showChargingStations,
                   stationsCache, error, debounceTimer, inflight, nMoves>>
    /\ UNCHANGED <<routeVars, connectorVars, zoomVars, searchVars>>

\* The debounce timeout (800 ms after the viewport change that set it), up to
\* its await: clearTimeout(loadingTimer), setIsLoading(true), setError(null)
\* and the call of fetchChargingStations.  Every loadingTimer still pending was
\* set no later than this timer and is due 500 ms earlier, so it has fired
\* before: the clearTimeout finds nothing to clear.
DebounceTimerFires ==
    /\ debounceTimer # <<>>
    /\ LoadingDelay < DebounceDelay => loadingTimers = 0
    /\ LET t == debounceTimer[1] IN
        /\ debounceTimer' = <<>>
        /\ isLoading' = IF phase = "mounted" THEN TRUE ELSE isLoading
        /\ error' = IF phase = "mounted" THEN NoError ELSE error
        /\ inflight' = Issue(inflight,
              Query(t.center, t.radius, FALSE, t.closure))
    /\ UNCHANGED <<phase, useRealData, mapZoom, showChargingStations,
                   stationsCache, loadingTimers, nMoves>>
    /\ UNCHANGED <<routeVars, connectorVars, zoomVars, searchVars>>

\* The continuation of a station query after its await, with the re-render it
\* causes: the merge into stationsCache (or, had the await rejected, the catch
\* block's setError), setIsLoading(false), and, when the cache object changed,
\* the new fetchStations callback and with it the re-run of the mount effect
\* (an immediate fetch for the props' centre).  State setters of an unmounted
\* component have no effect.
Response(q, outcome) ==
    /\ q \in InFlight
    /\ LET fetchedStations == FetchChargingStations(outcome)
           cacheUpdated == CacheUpdated(q.closure, fetchedStations)
           rest == Complete(inflight, q)
       IN  IF phase = "mounted" /\ FetchChargingStationsThrows(outcome)
           THEN /\ error' = FetchError
                /\ isLoading' = FALSE
                /\ inflight' = rest
                /\ UNCHANGED <<stationsCache, debounceTimer>>
           ELSE
           IF phase = "mounted"
           THEN /\ stationsCache' =
                      MergeStations(stationsCache, q.closure, fetchedStations)
                /\ IF cacheUpdated
                   THEN /\ debounceTimer' = ClearDebounce(debounceTimer)
                        /\ isLoading' = TRUE
                        /\ error' = NoError
                        /\ inflight' = Issue(rest,
                              Query(CenterProp, SearchRadius, TRUE,
                                    stationsCache'))
                   ELSE /\ isLoading' = FALSE
                        /\ inflight' = rest
                        /\ UNCHANGED <<debounceTimer, error>>
           ELSE /\ inflight' = rest
                /\ UNCHANGED <<stationsCache, debounceTimer, isLoading, error>>
    /\ UNCHANGED <<phase, useRealData, mapZoom, showChargingStations,
                   loadingTimers, nMoves>>
    /\ UNCHANGED <<routeVars, connectorVars, zoomVars, searchVars>>

\* The cleanup of the unmount effect: clearTimeout(debounceTimerRef.current).
\* It may run again on a component already torn down.
Unmount ==
    /\ phase \in {"mounted", "unmounted"}
    /\ phase' = "unmounted"
    /\ debounceTimer' = Cleanup(debounceTimer)
    /\ UNCHANGED <<useRealData, mapZoom, showChargingStations, stationsCache,
                   isLoading, error, loadingTimers, inflight, nMoves>>
    /\ UNCHANGED <<routeVars, connectorVars, zoomVars, searchVars>>

\* The continuation of a query of an unmounted component sets no state, so
\* whatever the fetch brought it takes the same step: one outcome stands for
\* all of them there.
Next ==
    \/ Mount
    \/ \E c \in Centers, z \in Zooms : HandleMapMove(c, z)
    \/ HandleToggleChargingStations
    \/ LoadingTimerFires
    \/ DebounceTimerFires
    \/ \E q \in InFlight,
          o \in (IF phase = "mounted" THEN Outcomes ELSE {Failure}) :
          Response(q, o)
    \/ Unmount

Spec == Init /\ [][Next]_vars

\* Some pending station query gets its response.
SomeResponse == \E q \in InFlight, o \in Outcomes : Response(q, o)

\* The event loop runs every timeout that is due, and every fetch() settles.
Fairness ==
    /\ WF_vars(LoadingTimerFires)
    /\ WF_vars(DebounceTimerFires)
    /\ WF_vars(SomeResponse)

SpecLive == Init /\ [][Next]_vars /\ Fairness

\* ================================================== route normalisation
\* The route service calculateEvRoute / calculateTotalChargingTime
\* (src/src/services/mapbox/evRouting.ts) and its caller calculateRoute of the
\* route planner page (src/src/app/routes/page.tsx).  An optional value is
\* <<>> (undefined / null) or <<v>>; charge times are in seconds.

MaxWaypoints == 2
MaxRouteCalls == 2

NoRouteError == "null"
NoRouteMessage ==
    "Could not calculate a route with the given parameters. Try adjusting your vehicle range or connector types."
RouteFailedMessage ==
    "An error occurred while calculating the route. Please try again."

\* The metadata objects of the provider's waypoints.
Metadatas ==
    { [type |-> "charging-station", name |-> "Fast A",
       plug_type |-> "type2", charge_time |-> 600],
      [type |-> "charging-station", name |-> "Fast B",
       plug_type |-> "ccs_combo_type2", charge_time |-> 1800],
      [type |-> "user-provided", name |-> "Origin",
       plug_type |-> "undefined", charge_time |-> 0] }

\* The provider's waypoints: one without metadata, one for each metadata.
ProviderWaypoints ==
    { [name |-> "Main St", location |-> "p0", metadata |-> <<>>] } \cup
    { [name |-> "", location |-> m.name, metadata |-> <<m>>] :
        m \in Metadatas }

\* The arrays of at most n elements of S.
RECURSIVE SeqsUpTo(_, _)
SeqsUpTo(S, n) ==
    IF n = 0 THEN { <<>> }
    ELSE LET shorter == SeqsUpTo(S, n - 1)
         IN  shorter \cup
             { Append(a, x) : a \in { b \in shorter : Len(b) = n - 1 },
                              x \in S }

\* An optional array of waypoints: the property is missing or is an array.
OptionalWaypoints(n) ==
    { <<>> } \cup { <<a>> : a \in SeqsUpTo(ProviderWaypoints, n) }

\* The waypoints property of a route object: missing, empty, or one waypoint.
RouteLevelWaypoints ==
    { <<>>, << <<>> >> } \cup { << <<w>> >> : w \in ProviderWaypoints }

\* The route-level waypoints that accompany top-level ones: missing, or one
\* charging waypoint.  With data.waypoints present (an array, even an empty
\* one, is truthy) route.waypoints is never read.
ShadowedWaypoints ==
    { <<>> } \cup
    { << <<w>> >> : w \in { x \in ProviderWaypoints :
                              x.metadata # <<>> /\ x.location = "Fast A" } }

\* What the fetch of /api/routes/ev can bring: a rejected fetch, a non-2xx
\* response, or a 2xx body with routes missing, empty, or holding one route,
\* the waypoints at the top level of the body and / or inside the route.
RouteResponses ==
    { [transport |-> t, routes |-> <<>>, waypoints |-> <<>>] :
        t \in {"network-error", "non-2xx"} } \cup
    { [transport |-> "ok", routes |-> r, waypoints |-> <<>>] :
        r \in { <<>>, << <<>> >> } } \cup
    { [transport |-> "ok",
       routes |-> << << [waypoints |-> rw] >> >>,
       waypoints |-> <<>>] :
        rw \in RouteLevelWaypoints } \cup
    { [transport |-> "ok",
       routes |-> << << [waypoints |-> rw] >> >>,
       waypoints |-> dw] :
        dw \in OptionalWaypoints(MaxWaypoints) \ { <<>> },
        rw \in ShadowedWaypoints }

\* A transport failure: the fetch rejects or response.ok is false.
IsTransportFailure(response) == response.transport # "ok"

\* A 2xx body with no routes: !data.routes || data.routes.length === 0.
HasNoRoutes(response) ==
    /\ response.transport = "ok"
    /\ \/ response.routes = <<>>
       \/ response.routes[1] = <<>>

\* data.waypoints || route.waypoints || []
WaypointsSource(data, r) ==
    IF data.waypoints # <<>> THEN data.waypoints[1]
    ELSE IF r.waypoints # <<>> THEN r.waypoints[1]
    ELSE <<>>

\* A test for a charging stop that only looks for metadata.
HasMetadata(waypoint) == waypoint.metadata # <<>>

\* waypoint.metadata && waypoint.metadata.type === 'charging-station'
IsChargingStation(waypoint) ==
    /\ waypoint.metadata # <<>>
    /\ waypoint.metadata[1].type = "charging-station"

\* The object pushed to chargingWaypoints for a charging waypoint.
ChargingWaypoint(waypoint) ==
    [type |-> "charging-station",
     name |-> waypoint.metadata[1].name,
     chargeTime |-> waypoint.metadata[1].charge_time,
     plugType |-> waypoint.metadata[1].plug_type,
     location |-> waypoint.location]

\* The forEach over waypointsSource that fills chargingWaypoints.
RECURSIVE ChargingWaypoints(_)
ChargingWaypoints(source) ==
    IF source = <<>> THEN <<>>
    ELSE (IF IsChargingStation(Head(source))
          THEN << ChargingWaypoint(Head(source)) >>
          ELSE <<>>) \o ChargingWaypoints(Tail(source))

\* The element of evRoute.waypoints made from a provider waypoint.
RouteWaypoint(waypoint) ==
    [name |-> waypoint.name,
     location |-> waypoint.location,
     metadata |->
        IF waypoint.metadata # <<>>
        THEN << [type |-> waypoint.metadata[1].type,
                 name |-> waypoint.metadata[1].name,
                 chargeTime |-> waypoint.metadata[1].charge_time,
                 plugType |-> waypoint.metadata[1].plug_type] >>
        ELSE <<>>]

\* A calculateEvRoute that answers every response with an empty route.
AlwaysEmptyRoute(response) ==
    << [waypoints |-> <<>>, chargingWaypoints |-> <<>>] >>

\* calculateEvRoute: <<>> for null, <<evRoute>> for a route.  The throw on a
\* non-2xx response and the rejection of fetch are caught by its own catch.
CalculateEvRoute(response) ==
    IF IsTransportFailure(response) THEN <<>>
    ELSE IF HasNoRoutes(response) THEN <<>>
    ELSE LET r == response.routes[1][1]
             waypointsSource == WaypointsSource(response, r)
         IN  << [waypoints |->
                    [i \in 1..Len(waypointsSource) |->
                        RouteWaypoint(waypointsSource[i])],
                 chargingWaypoints |->
                    ChargingWaypoints(waypointsSource)] >>

\* A calculateEvRoute that rejects when it has no route to return.
RejectsWithoutRoute(response) ==
    IsTransportFailure(response) \/ HasNoRoutes(response)

\* Whether the promise of calculateEvRoute rejects: the whole body is inside
\* its try, so it never does.
CalculateEvRouteThrows(response) == FALSE

\* A reducer that forgets the running total.
ChargeTimeOnly(total, waypoint) == waypoint.chargeTime

\* The reducer (total, waypoint) => total + waypoint.chargeTime
AddChargeTime(total, waypoint) == total + waypoint.chargeTime

\* chargingWaypoints.reduce(reducer, total)
RECURSIVE ReduceChargeTime(_, _)
ReduceChargeTime(chargingWaypoints, total) ==
    IF chargingWaypoints = <<>> THEN total
    ELSE ReduceChargeTime(Tail(chargingWaypoints),
                          AddChargeTime(total, Head(chargingWaypoints)))

CalculateTotalChargingTime(evRoute) ==
    ReduceChargeTime(evRoute.chargingWaypoints, 0)

\* calculateRoute up to its await (both locations are selected).
CalculateRoute ==
    /\ nRouteCalls < MaxRouteCalls
    /\ nRouteCalls' = nRouteCalls + 1
    /\ isCalculatingRoute' = TRUE
    /\ routeError' = NoRouteError
    /\ routePending' = routePending + 1
    /\ pendingCalls' = pendingCalls \cup {nRouteCalls + 1}
    /\ UNCHANGED <<route, providerResponse, routeResult, routeCall>>
    /\ UNCHANGED <<mapVars, connectorVars, zoomVars, searchVars>>

\* calculateRoute after its await, for the call numbered call: the provider's
\* response is turned into the result of calculateEvRoute, and the page
\* stores the route or a message.  Nothing orders the continuations of two
\* calls: each runs when its own fetch settles.
RouteResponse(call, response) ==
    /\ call \in pendingCalls
    /\ pendingCalls' = pendingCalls \ {call}
    /\ routePending > 0
    /\ routePending' = routePending - 1
    /\ providerResponse' = <<response>>
    /\ LET result == CalculateEvRoute(response)
       IN  /\ routeResult' = result
           /\ IF CalculateEvRouteThrows(response)
              THEN /\ routeError' = RouteFailedMessage
                   /\ UNCHANGED <<route, routeCall>>
              ELSE IF result # <<>>
              THEN /\ route' = result
                   /\ routeCall' = call
                   /\ UNCHANGED routeError
              ELSE /\ routeError' = NoRouteMessage
                   /\ UNCHANGED <<route, routeCall>>
    /\ isCalculatingRoute' = FALSE
    /\ UNCHANGED nRouteCalls
    /\ UNCHANGED <<mapVars, connectorVars, zoomVars, searchVars>>

NextRoute ==
    \/ CalculateRoute
    \/ \E call \in pendingCalls, response \in RouteResponses :
          RouteResponse(call, response)

\* The route planner page as constructed: it renders its MapWrapper with
\* useRealData={true} and a zoom (15) at which stations are fetched.
InitRoute == Init /\ useRealData /\ mapZoom >= ZoomThreshold

SpecRoute == InitRoute /\ [][NextRoute]_vars

\* ============================================ connector canonicalisation
\* The connector_types handling of the GET handler of /api/routes/ev
\* (src/src/app/api/routes/ev/route.ts, lines 59-88).  The query parameter is
\* held as the array its split(',') gives.

MaxTypes == 3

\* ['ccs_combo_type1', 'ccs_combo_type2', 'tesla', 'chademo']
CanonicalConnectorTypes ==
    {"ccs_combo_type1", "ccs_combo_type2", "tesla", "chademo"}

\* The strings between the commas of the parameter: the aliases the handler
\* knows, the canonical names, unknown names (the empty string among them)
\* and names with white space around them.
RawConnectorTypes ==
    {"type1", "j1772", "type2", "mennekes", "ccs_type1", "ccs_type2"} \cup
    CanonicalConnectorTypes \cup
    {"nacs", "", " type2", "tesla "}

\* String.prototype.trim on those strings.
Trim(type) ==
    CASE type = " type2" -> "type2"
      [] type = "tesla " -> "tesla"
      [] OTHER -> type

\* searchParams.get('connector_types') || searchParams.get('connectorTypes'):
\* <<>> when neither parameter is given, else the array of its split(',').
ConnectorParams ==
    { <<>> } \cup
    { <<a>> : a \in SeqsUpTo(RawConnectorTypes, MaxTypes) \ { <<>> } }

\* if (connectorTypes): the parameter is given and is not the empty string.
IsGiven(param) == param # <<>> /\ param[1] # << "" >>

\* A handler that logs nothing for an unknown type.
WarnNothing(type) == <<>>

\* console.warn(`Unknown connector type: ${type}, ...`)
WarnUnknown(type) == << type >>

\* A callback that only trims.
TrimOnly(type) == [value |-> Trim(type), log |-> <<>>]

\* A callback without the test for the canonical names: whatever is not an
\* alias is taken as unknown.
AliasesOnly(type) ==
    LET t == Trim(type)
    IN  IF t = "type1" \/ t = "j1772" \/ t = "ccs_type1"
        THEN [value |-> "ccs_combo_type1", log |-> <<>>]
        ELSE IF t = "type2" \/ t = "mennekes" \/ t = "ccs_type2"
        THEN [value |-> "ccs_combo_type2", log |-> <<>>]
        ELSE [value |-> "ccs_combo_type2", log |-> WarnUnknown(t)]

\* The callback of .map(): the canonical value returned for one type and
\* what it logs.
MapConnectorType(type) ==
    LET t == Trim(type)
    IN  IF t = "type1" \/ t = "j1772"
        THEN [value |-> "ccs_combo_type1", log |-> <<>>]
        ELSE IF t = "type2" \/ t = "mennekes"
        THEN [value |-> "ccs_combo_type2", log |-> <<>>]
        ELSE IF t = "ccs_type1"
        THEN [value |-> "ccs_combo_type1", log |-> <<>>]
        ELSE IF t = "ccs_type2"
        THEN [value |-> "ccs_combo_type2", log |-> <<>>]
        ELSE IF t \in CanonicalConnectorTypes
        THEN [value |-> t, log |-> <<>>]
        ELSE [value |-> "ccs_combo_type2", log |-> WarnUnknown(t)]

\* The index of the last occurrence of value in self.
LastIndexOf(self, value) ==
    CHOOSE i \in 1..Len(self) :
        /\ self[i] = value
        /\ \A j \in (i + 1)..Len(self) : self[j] # value

\* self.indexOf(value), for a value that occurs in self.
IndexOf(self, value) ==
    CHOOSE i \in 1..Len(self) :
        /\ self[i] = value
        /\ \A j \in 1..(i - 1) : self[j] # value

\* .filter((value, index, self) => self.indexOf(value) === index), from index
RECURSIVE FilterFirst(_, _)
FilterFirst(self, index) ==
    IF index > Len(self) THEN <<>>
    ELSE (IF IndexOf(self, self[index]) = index
          THEN << self[index] >>
          ELSE <<>>) \o FilterFirst(self, index + 1)

\* The console output of .map() over types, from index on.
RECURSIVE MapLog(_, _)
MapLog(types, index) ==
    IF index > Len(types) THEN <<>>
    ELSE MapConnectorType(types[index]).log \o MapLog(types, index + 1)

\* validConnectorTypes: split, map, filter.
ValidConnectorTypes(types) ==
    FilterFirst([i \in 1..Len(types) |-> MapConnectorType(types[i]).value], 1)

\* The default of the else branch: ccs_combo_type2,ccs_combo_type1
DefaultConnectorTypes == << "ccs_combo_type2", "ccs_combo_type1" >>

\* GET receives a request with some connector parameter: the connector types
\* that go into the provider URL as ev_connector_types, and the warnings
\* logged on the way.
GetEvRoute ==
    /\ connectorPc = "idle"
    /\ connectorPc' = "sent"
    /\ \E param \in ConnectorParams :
          /\ connectorTypes' = param
          /\ IF IsGiven(param)
             THEN /\ evConnectorTypes' = ValidConnectorTypes(param[1])
                  /\ warnings' = MapLog(param[1], 1)
             ELSE /\ evConnectorTypes' = DefaultConnectorTypes
                  /\ warnings' = <<>>
    /\ UNCHANGED <<mapVars, routeVars, zoomVars, searchVars>>

\* GET returns: the handler keeps nothing from one request to the next.
GetReturns ==
    /\ connectorPc = "sent"
    /\ connectorPc' = "idle"
    /\ connectorTypes' = <<>>
    /\ evConnectorTypes' = <<>>
    /\ warnings' = <<>>
    /\ UNCHANGED <<mapVars, routeVars, zoomVars, searchVars>>

NextConnector ==
    \/ GetEvRoute
    \/ GetReturns

SpecConnector == InitRoute /\ [][NextConnector]_vars

\* ========================================================= map view zoom
\* updateMapView and calculateZoomLevel of the route planner page
\* (src/src/app/routes/page.tsx, lines 72-127).  Distances are integers in
\* units of 0.1 km, so that the threshold 0.5 km is the integer 5.

MaxDistance == 120

\* setMapZoom(14) for a single selected location
SingleLocationZoom == 14

\* The thresholds of calculateZoomLevel, in units of 0.1 km.
ZoomThresholds == {10000, 5000, 2500, 1000, 500, 250, 100, 50, 20, 10, 5}

\* The distances between the two selected locations: every distance up to
\* MaxDistance, each threshold with its two neighbours, and the greatest
\* distance on the globe (20015 km).
Distances ==
    (0..MaxDistance) \cup
    { t + k : t \in ZoomThresholds, k \in {-1, 0, 1} } \cup {200150}

\* A calculateZoomLevel that tests for 500 km before it tests for 1000 km.
ZoomLevelMisordered(distanceInKm) ==
    IF distanceInKm > 5000 THEN 5
    ELSE IF distanceInKm > 10000 THEN 4
    ELSE IF distanceInKm > 2500 THEN 6
    ELSE IF distanceInKm > 1000 THEN 7
    ELSE IF distanceInKm > 500 THEN 8
    ELSE IF distanceInKm > 250 THEN 9
    ELSE IF distanceInKm > 100 THEN 10
    ELSE IF distanceInKm > 50 THEN 11
    ELSE IF distanceInKm > 20 THEN 12
    ELSE IF distanceInKm > 10 THEN 13
    ELSE IF distanceInKm > 5 THEN 14
    ELSE 15

\* calculateZoomLevel
CalculateZoomLevel(distanceInKm) ==
    IF distanceInKm > 10000 THEN 4
    ELSE IF distanceInKm > 5000 THEN 5
    ELSE IF distanceInKm > 2500 THEN 6
    ELSE IF distanceInKm > 1000 THEN 7
    ELSE IF distanceInKm > 500 THEN 8
    ELSE IF distanceInKm > 250 THEN 9
    ELSE IF distanceInKm > 100 THEN 10
    ELSE IF distanceInKm > 50 THEN 11
    ELSE IF distanceInKm > 20 THEN 12
    ELSE IF distanceInKm > 10 THEN 13
    ELSE IF distanceInKm > 5 THEN 14
    ELSE 15

\* updateMapView with both locations selected, d apart.
UpdateMapView(d) ==
    /\ distance' = <<d>>
    /\ pageMapZoom' = CalculateZoomLevel(d)
    /\ UNCHANGED <<mapVars, routeVars, connectorVars, searchVars>>

\* updateMapView with one location selected.
UpdateMapViewSingle ==
    /\ distance' = <<>>
    /\ pageMapZoom' = SingleLocationZoom
    /\ UNCHANGED <<mapVars, routeVars, connectorVars, searchVars>>

NextZoom ==
    \/ \E d \in Distances : UpdateMapView(d)
    \/ UpdateMapViewSingle

SpecZoom == InitRoute /\ [][NextZoom]_vars

\* ======================================================= location search
\* Texts are sequences of characters.  Session tokens are serial numbers: a
\* uuidv4() differs from every token handed out before.

MaxEdits == 2
MaxSelects == 2
MinSearchLength == 2

\* What the user types: two characters, three characters, one character
\* between blanks.
SearchTexts ==
    { <<"a", "b">>, <<"a", "b", "c">>, <<" ", " ", "a", " ">> }

\* The suggestions the provider knows: one place.
ProviderSuggestions ==
    << [mapbox_id |-> "m1", name |-> <<"a", "b", "c", "d">>] >>

SuggestOutcomes == {"suggestions", "none", "non-2xx", "network-error"}
RetrieveOutcomes == {"feature", "no-feature", "non-2xx", "network-error"}

RECURSIVE TrimStart(_)
TrimStart(text) ==
    IF text # <<>> /\ Head(text) = " " THEN TrimStart(Tail(text)) ELSE text

RECURSIVE TrimEnd(_)
TrimEnd(text) ==
    IF text # <<>> /\ text[Len(text)] = " "
    THEN TrimEnd(SubSeq(text, 1, Len(text) - 1))
    ELSE text

\* String.prototype.trim
TrimText(text) == TrimEnd(TrimStart(text))

\* value.trim().length > 2
IsSearchable(value) == Len(TrimText(value)) > MinSearchLength

\* refreshSessionToken: this.sessionToken = uuidv4()
RefreshSessionToken(token) == token + 1

\* getLocationSuggestions: data.suggestions of a 2xx response, [] otherwise.
\* History: each suggestion is tagged with the token its request carried.
GetLocationSuggestions(outcome, token) ==
    IF outcome = "suggestions"
    THEN [i \in DOMAIN ProviderSuggestions |->
            [mapbox_id |-> ProviderSuggestions[i].mapbox_id,
             name |-> ProviderSuggestions[i].name,
             token |-> token]]
    ELSE <<>>

\* Whether getLocationDetails got past response.ok and response.json().
RetrieveSucceeds(outcome) == outcome \in {"feature", "no-feature"}

\* getLocationDetails: <<>> for null, <<the mapbox_id of the detail>>.
GetLocationDetails(outcome, mapboxId) ==
    IF outcome = "feature" THEN <<mapboxId>> ELSE <<>>

\* calculateDistance between two retrieved places (0.1 km).
PlaceDistance(a, b) == IF a = b THEN 0 ELSE MaxDistance

\* The suggestion list of the input is rendered.
ListShown(input) == showSuggestions[input] /\ suggestions[input] # <<>>

\* handleInputChange: setSearchText and the restart of the 300 ms timer.
HandleInputChange(input, value) ==
    /\ nEdits < MaxEdits
    /\ nEdits' = nEdits + 1
    /\ searchText' = [searchText EXCEPT ![input] = value]
    /\ searchTimer' = [searchTimer EXCEPT
                          ![input] = <<[value |-> value, edit |-> nEdits + 1]>>]
    /\ UNCHANGED <<sessionToken, suggestions, showSuggestions,
                   searchIsLoading, selectedLocation, suggestCalls,
                   retrieveCalls, nSelects>>
    /\ UNCHANGED <<mapVars, routeVars, connectorVars, zoomVars>>

\* The timeout of handleInputChange up to its await: the suggest request
\* carries the session token read at this moment.
SearchTimerFires(input) ==
    /\ searchTimer[input] # <<>>
    /\ searchTimer' = [searchTimer EXCEPT ![input] = <<>>]
    /\ LET t == searchTimer[input][1] IN
        IF IsSearchable(t.value)
        THEN /\ searchIsLoading' = [searchIsLoading EXCEPT ![input] = TRUE]
             /\ suggestCalls' = suggestCalls \cup
                   { [input |-> input, token |-> sessionToken,
                      edit |-> t.edit] }
             /\ UNCHANGED <<suggestions, showSuggestions>>
        ELSE /\ suggestions' = [suggestions EXCEPT ![input] = <<>>]
             /\ showSuggestions' = [showSuggestions EXCEPT ![input] = FALSE]
             /\ UNCHANGED <<searchIsLoading, suggestCalls>>
    /\ UNCHANGED <<sessionToken, searchText, selectedLocation, retrieveCalls,
                   nEdits, nSelects>>
    /\ UNCHANGED <<mapVars, routeVars, connectorVars, zoomVars>>

\* The timeout of handleInputChange after its await.
SuggestResponse(call, outcome) ==
    /\ call \in suggestCalls
    /\ suggestCalls' = suggestCalls \ {call}
    /\ suggestions' = [suggestions EXCEPT
          ![call.input] = GetLocationSuggestions(outcome, call.token)]
    /\ showSuggestions' = [showSuggestions EXCEPT ![call.input] = TRUE]
    /\ searchIsLoading' = [searchIsLoading EXCEPT ![call.input] = FALSE]
    /\ UNCHANGED <<sessionToken, searchText, selectedLocation, searchTimer,
                   retrieveCalls, nEdits, nSelects>>
    /\ UNCHANGED <<mapVars, routeVars, connectorVars, zoomVars>>

\* onFocus: setSuggestions.length (the arity of the setter, 1) is > 0, so
\* the list kept from the last suggest response is shown again.
HandleFocus(input) ==
    /\ IsSearchable(searchText[input])
    /\ showSuggestions' = [showSuggestions EXCEPT ![input] = TRUE]
    /\ UNCHANGED <<sessionToken, searchText, suggestions, searchIsLoading,
                   selectedLocation, searchTimer, suggestCalls, retrieveCalls,
                   nEdits, nSelects>>
    /\ UNCHANGED <<mapVars, routeVars, connectorVars, zoomVars>>

\* handleClickOutside, with the list rendered (suggestionsRef.current set).
HandleClickOutside(input) ==
    /\ ListShown(input)
    /\ showSuggestions' = [showSuggestions EXCEPT ![input] = FALSE]
    /\ UNCHANGED <<sessionToken, searchText, suggestions, searchIsLoading,
                   selectedLocation, searchTimer, suggestCalls, retrieveCalls,
                   nEdits, nSelects>>
    /\ UNCHANGED <<mapVars, routeVars, connectorVars, zoomVars>>

\* handleSuggestionSelect up to its await: the retrieve request carries the
\* session token read at this moment.
HandleSuggestionSelect(input) ==
    /\ ListShown(input)
    /\ nSelects < MaxSelects
    /\ nSelects' = nSelects + 1
    /\ \E i \in DOMAIN suggestions[input] :
          retrieveCalls' = retrieveCalls \cup
             { [input |-> input, token |-> sessionToken,
                suggestion |-> suggestions[input][i],
                select |-> nSelects + 1] }
    /\ searchIsLoading' = [searchIsLoading EXCEPT ![input] = TRUE]
    /\ UNCHANGED <<sessionToken, searchText, suggestions, showSuggestions,
                   selectedLocation, searchTimer, suggestCalls, nEdits>>
    /\ UNCHANGED <<mapVars, routeVars, connectorVars, zoomVars>>

\* handleSuggestionSelect after its await: a retrieve that succeeded has
\* refreshed the session token; a detail is stored and handed to the page,
\* whose handleStartLocationSelect / handleEndLocationSelect updates the map
\* view.
RetrieveResponse(call, outcome) ==
    /\ call \in retrieveCalls
    /\ retrieveCalls' = retrieveCalls \ {call}
    /\ sessionToken' = IF RetrieveSucceeds(outcome)
                       THEN RefreshSessionToken(sessionToken)
                       ELSE sessionToken
    /\ searchIsLoading' = [searchIsLoading EXCEPT ![call.input] = FALSE]
    /\ showSuggestions' = [showSuggestions EXCEPT ![call.input] = FALSE]
    /\ LET locationDetail ==
               GetLocationDetails(outcome, call.suggestion.mapbox_id)
       IN  IF locationDetail # <<>>
           THEN /\ selectedLocation' =
                      [selectedLocation EXCEPT ![call.input] = locationDetail]
                /\ searchText' =
                      [searchText EXCEPT ![call.input] = call.suggestion.name]
                /\ IF \A input \in SearchInputs : selectedLocation'[input] # <<>>
                   THEN LET d == PlaceDistance(selectedLocation'["start"][1],
                                               selectedLocation'["end"][1])
                        IN  /\ distance' = <<d>>
                            /\ pageMapZoom' = CalculateZoomLevel(d)
                   ELSE /\ distance' = <<>>
                        /\ pageMapZoom' = SingleLocationZoom
           ELSE UNCHANGED <<selectedLocation, searchText, zoomVars>>
    /\ UNCHANGED <<suggestions, searchTimer, suggestCalls, nEdits, nSelects>>
    /\ UNCHANGED <<mapVars, routeVars, connectorVars>>

NextSearch ==
    \/ \E input \in SearchInputs, value \in SearchTexts :
          HandleInputChange(input, value)
    \/ \E input \in SearchInputs : SearchTimerFires(input)
    \/ \E call \in suggestCalls, outcome \in SuggestOutcomes :
          SuggestResponse(call, outcome)
    \/ \E input \in SearchInputs : HandleFocus(input)
    \/ \E input \in SearchInputs : HandleClickOutside(input)
    \/ \E input \in SearchInputs : HandleSuggestionSelect(input)
    \/ \E call \in retrieveCalls, outcome \in RetrieveOutcomes :
          RetrieveResponse(call, outcome)

SpecSearch == InitRoute /\ [][NextSearch]_vars

\* ================================================================ claims

\* The query q gets its response in this step.
Completes(q) == CopiesIn(q, inflight') < CopiesIn(q, inflight)

\* This step is an onMove event.
IsMove == nMoves' = nMoves + 1

\* This step is the mount.
IsMount == phase = "init" /\ phase' = "mounted"

\* C1: a query that a newer viewport change (zoom >= 12) has superseded before
\* its response arrived never writes into the station cache.
C1_StaleNeverMerged ==
    [][\A q \in InFlight :
          (q.stale /\ Completes(q)) => stationsCache' = stationsCache]_vars

\* C2: at most one station query is in flight at any time.
C2_AtMostOneInFlight == NumInFlight <= 1

\* C3: a run of debounced viewport changes of a mounted component issues
\* exactly one query, for the last change: while the timer is pending no query
\* is issued, a newer change restarts it, and it goes away only as one new
\* query with the centre and radius of the last change is issued.
C3_TrailingDebounce ==
    [][(debounceTimer # <<>> /\ phase' = "mounted") =>
          \/ debounceTimer' = debounceTimer /\ NumInFlight' <= NumInFlight
          \/ debounceTimer' # <<>> /\ IsMove /\ NumInFlight' = NumInFlight
          \/ /\ debounceTimer' = <<>>
             /\ NumInFlight' <= NumInFlight + 1
             /\ \E q \in BagToSet(inflight') :
                   /\ q.center = debounceTimer[1].center
                   /\ q.radius = debounceTimer[1].radius
                   /\ CopiesIn(q, inflight') > CopiesIn(q, inflight)]_vars

\* C4: a viewport request at zoom below 12, the mount's immediate one
\* included, issues no station query and arms no timer.
C4_ZoomGating ==
    [][((IsMount \/ IsMove) /\ mapZoom' < ZoomThreshold) =>
          /\ inflight' = inflight
          /\ debounceTimer' \in {<<>>, debounceTimer}]_vars

\* C5: a viewport change at zoom below 12 cancels the pending debounce timer.
C5_LowZoomCancels ==
    [][(IsMove /\ mapZoom' < ZoomThreshold) => debounceTimer' = <<>>]_vars

\* C6: teardown leaves no debounce timer pending; after it no query is issued,
\* the station cache and every other state of the component stay as they are
\* whatever response or timeout arrives, and a second teardown changes nothing.
C6_Dispose ==
    [][/\ phase' = "unmounted" => debounceTimer' = <<>>
       /\ Cleanup(Cleanup(debounceTimer)) = Cleanup(debounceTimer)
       /\ phase = "unmounted" =>
            /\ stationsCache' = stationsCache
            /\ NumInFlight' <= NumInFlight
            /\ loadingTimers' <= loadingTimers
            /\ UNCHANGED <<phase, useRealData, mapZoom, showChargingStations,
                           isLoading, error, debounceTimer, nMoves>>]_vars

\* C6 witness: torn down after a viewport change, with a query still in flight
\* and stations already cached.
C6_Witness ==
    /\ phase = "unmounted"
    /\ NumInFlight > 0
    /\ nMoves > 0
    /\ stationsCache # EmptyCache

\* C7: the record stored under a cache key is never replaced.
C7_FirstWriteWins ==
    [][\A k \in DOMAIN stationsCache :
          k \in DOMAIN stationsCache' /\ stationsCache'[k] = stationsCache[k]]_vars

\* The composite key of the specification: id, latitude and longitude rounded
\* to 6 decimals.
CompositeKey(s) == <<s.id, <<ToFixed6(s.lat), ToFixed6(s.lng)>>>>

\* C8: every cache entry is stored under the composite key of its record, no
\* two entries have records with the same composite key, and a response of two
\* identical stations merged into an empty cache gives a cache of size 1.
C8_DedupByCompositeKey ==
    /\ \A k \in DOMAIN stationsCache : k = CompositeKey(stationsCache[k])
    /\ \A k1, k2 \in DOMAIN stationsCache :
          CompositeKey(stationsCache[k1]) = CompositeKey(stationsCache[k2])
              => k1 = k2
    /\ \A q \in InFlight, s \in Stations :
          stationsCache = EmptyCache =>
              Cardinality(DOMAIN MergeStations(stationsCache, q.closure, <<s, s>>)) = 1

\* C8 witness: the cache holds two entries, one of them a record whose raw
\* latitude differs from its rounded one.
C8_Witness ==
    /\ Cardinality(DOMAIN stationsCache) = 2
    /\ \E k \in DOMAIN stationsCache : stationsCache[k].lat = 12

\* C9: whichever two pending queries deliver the same batch one after the
\* other, the second merge leaves the cache as the first one left it.
C9_MergeIdempotent ==
    \A q1, q2 \in InFlight, b \in Batches :
        LET once == MergeStations(stationsCache, q1.closure, b)
        IN  MergeStations(once, q2.closure, b) = once

\* C10: while the component is mounted no transition removes a key from the
\* station cache.
C10_AppendOnly ==
    [][phase = "mounted" =>
          DOMAIN stationsCache \subseteq DOMAIN stationsCache']_vars

\* C10 witness: a non-empty cache after a viewport change and a toggle of the
\* station visibility.
C10_Witness ==
    /\ phase = "mounted"
    /\ stationsCache # EmptyCache
    /\ nMoves > 0
    /\ ~showChargingStations

\* The step leaves the station cache and the timers alone, takes one query
\* out of flight and, in a mounted component, ends with the loading flag off.
OnlyCompletesAQuery ==
    /\ stationsCache' = stationsCache
    /\ debounceTimer' = debounceTimer
    /\ loadingTimers' = loadingTimers
    /\ phase = "mounted" => ~isLoading'
    /\ NumInFlight' = NumInFlight - 1

\* C11: a failed station query leaves the station cache as it was, issues no
\* further query (the handler only completes the failed one, restarting no
\* timer) and ends in its finally block with the loading flag cleared: every
\* step that is the response to a failed query only completes a query.
C11_FailureLeavesCache ==
    [][\/ OnlyCompletesAQuery
       \/ ~ \E q \in InFlight : Completes(q) /\ Response(q, Failure)]_vars

\* C11 witness: a query is in flight while stations are cached and a debounce
\* timer is pending, so a failure has something to spoil.
C11_Witness ==
    /\ phase = "mounted"
    /\ NumInFlight > 0
    /\ stationsCache # EmptyCache
    /\ debounceTimer # <<>>

\* C12: a failed station query sets the error state of the mounted component.
C12_FailureSetsError ==
    [][\A q \in InFlight :
          (phase = "mounted" /\ Completes(q) /\ Response(q, Failure)) =>
              error' # NoError]_vars

\* ------------------------------------------------- route normalisation

\* The response handled last had no routes.
HandledNoRoutes ==
    providerResponse # <<>> /\ HasNoRoutes(providerResponse[1])

\* C13: for a provider response without routes (routes missing or empty)
\* calculateEvRoute returns null and does not throw: its caller gets null and
\* never reaches its catch block.
C13_NoRoutesNull ==
    HandledNoRoutes =>
        /\ routeResult = <<>>
        /\ routeError # RouteFailedMessage

\* C13 witness: a response with an empty routes array has been handled.
C13_Witness ==
    /\ HandledNoRoutes
    /\ providerResponse[1].routes = << <<>> >>
    /\ routeError = NoRouteMessage

\* C14: what the caller gets for a response with zero routes differs from
\* what it gets for a transport failure, in the returned value or in that
\* the call throws.
C14_NoRouteDistinguishable ==
    \A failure \in RouteResponses :
        (HandledNoRoutes /\ IsTransportFailure(failure)) =>
            \/ routeResult # CalculateEvRoute(failure)
            \/ CalculateEvRouteThrows(failure)

\* The waypoint (of the provider or of a normalized route) is tagged as a
\* charging station.
TaggedCharging(waypoint) ==
    /\ waypoint.metadata # <<>>
    /\ waypoint.metadata[1].type = "charging-station"

\* The charging stop a tagged waypoint of a normalized route stands for.
StopOf(waypoint) ==
    [type |-> "charging-station",
     name |-> waypoint.metadata[1].name,
     chargeTime |-> waypoint.metadata[1].chargeTime,
     plugType |-> waypoint.metadata[1].plugType,
     location |-> waypoint.location]

\* C15: the chargingWaypoints of a returned route are, in order, exactly the
\* route's waypoints whose metadata type is 'charging-station', one entry for
\* each of them and no other entry.
C15_ChargingSubsequence ==
    routeResult # <<>> =>
        LET tagged == SelectSeq(routeResult[1].waypoints, TaggedCharging)
        IN  /\ Len(routeResult[1].chargingWaypoints) = Len(tagged)
            /\ \A i \in 1..Len(tagged) :
                  routeResult[1].chargingWaypoints[i] = StopOf(tagged[i])

\* C15 witness: a returned route with an untagged waypoint that has metadata
\* and a charging stop.
C15_Witness ==
    /\ routeResult # <<>>
    /\ Len(routeResult[1].chargingWaypoints) = 1
    /\ \E i \in 1..Len(routeResult[1].waypoints) :
          /\ routeResult[1].waypoints[i].metadata # <<>>
          /\ ~TaggedCharging(routeResult[1].waypoints[i])
    /\ route = routeResult

\* The provider waypoints of the response handled last that are tagged as
\* charging stations.
ProviderStops ==
    SelectSeq(WaypointsSource(providerResponse[1],
                              providerResponse[1].routes[1][1]),
              TaggedCharging)

\* C16: every charging waypoint of a normalized route carries the canonical
\* form of the provider's plug_type, a member of the canonical set.
C16_CanonicalPlugType ==
    routeResult # <<>> =>
        \A i \in 1..Len(routeResult[1].chargingWaypoints) :
            LET plugType == routeResult[1].chargingWaypoints[i].plugType
            IN  /\ plugType \in CanonicalConnectorTypes
                /\ plugType =
                      MapConnectorType(
                          ProviderStops[i].metadata[1].plug_type).value

\* The sum of charge_time over provider waypoints.
RECURSIVE SumProviderChargeTime(_)
SumProviderChargeTime(waypoints) ==
    IF waypoints = <<>> THEN 0
    ELSE waypoints[1].metadata[1].charge_time +
         SumProviderChargeTime(Tail(waypoints))

\* The sum of chargeTime over charging waypoints.
RECURSIVE SumChargeTime(_)
SumChargeTime(chargingWaypoints) ==
    IF chargingWaypoints = <<>> THEN 0
    ELSE chargingWaypoints[1].chargeTime +
         SumChargeTime(Tail(chargingWaypoints))

\* C17: calculateTotalChargingTime of a returned route is the sum of
\* chargeTime over its chargingWaypoints (0 when there are none), which is the
\* sum of charge_time over the provider waypoints tagged as charging stations.
C17_TotalChargingTime ==
    routeResult # <<>> =>
        /\ CalculateTotalChargingTime(routeResult[1]) =
              SumChargeTime(routeResult[1].chargingWaypoints)
        /\ CalculateTotalChargingTime(routeResult[1]) =
              SumProviderChargeTime(ProviderStops)
        /\ routeResult[1].chargingWaypoints = <<>> =>
              CalculateTotalChargingTime(routeResult[1]) = 0

\* C17 witness: the stored route has two charging stops with different
\* charge times.
C17_Witness ==
    /\ route # <<>>
    /\ route = routeResult
    /\ Len(route[1].chargingWaypoints) = 2
    /\ route[1].chargingWaypoints[1].chargeTime #
          route[1].chargingWaypoints[2].chargeTime
    /\ CalculateTotalChargingTime(route[1]) >
          route[1].chargingWaypoints[2].chargeTime

\* --------------------------------------------- connector canonicalisation

\* The handler has canonicalized the connector types of a request.
Canonicalized == connectorPc = "sent" /\ IsGiven(connectorTypes)

\* The aliases of the mapping table.
Type1Aliases == {"type1", "j1772", "ccs_type1"}
Type2Aliases == {"type2", "mennekes", "ccs_type2"}

\* The connector type, white space around it aside, is in the mapping table
\* or in the canonical set.
Recognized(type) ==
    Trim(type) \in Type1Aliases \cup Type2Aliases \cup CanonicalConnectorTypes

Unrecognized(type) == ~Recognized(type)

\* The canonical value the mapping table gives to a connector type.
CanonicalImage(type) ==
    IF Trim(type) \in Type1Aliases THEN "ccs_combo_type1"
    ELSE IF Trim(type) \in Type2Aliases THEN "ccs_combo_type2"
    ELSE IF Trim(type) \in CanonicalConnectorTypes THEN Trim(type)
    ELSE "ccs_combo_type2"

RangeOf(seq) == { seq[i] : i \in 1..Len(seq) }

\* C18: type1, j1772 and ccs_type1 become ccs_combo_type1; type2, mennekes
\* and ccs_type2 become ccs_combo_type2; the four canonical values stay as
\* they are; and whatever the input, the value is one of the four.
C18_MappingTable ==
    Canonicalized =>
        LET types == connectorTypes[1]
        IN  /\ RangeOf(evConnectorTypes) \subseteq CanonicalConnectorTypes
            /\ evConnectorTypes # <<>>
            /\ \A i \in 1..Len(types) :
                  Recognized(types[i]) =>
                      CanonicalImage(types[i]) \in RangeOf(evConnectorTypes)
            /\ (Len(types) = 1 /\ Recognized(types[1])) =>
                  evConnectorTypes = << CanonicalImage(types[1]) >>

\* C18 witness: the alias mennekes alone has been canonicalized.
C18_Witness ==
    /\ Canonicalized
    /\ connectorTypes[1] = << "mennekes" >>
    /\ evConnectorTypes = << "ccs_combo_type2" >>

\* C19: each connector type outside the mapping table and the canonical set
\* is replaced by ccs_combo_type2 and logs one warning naming it; recognized
\* types log none.
C19_DefaultAndWarn ==
    Canonicalized =>
        LET types == connectorTypes[1]
            unknown == SelectSeq(types, Unrecognized)
        IN  /\ Len(warnings) = Len(unknown)
            /\ \A i \in 1..Len(unknown) : warnings[i] = Trim(unknown[i])
            /\ unknown # <<>> => "ccs_combo_type2" \in RangeOf(evConnectorTypes)
            /\ Len(unknown) = Len(types) =>
                  evConnectorTypes = << "ccs_combo_type2" >>

\* C19 witness: a request with an unknown type between two recognized ones.
C19_Witness ==
    /\ Canonicalized
    /\ connectorTypes[1] = << "tesla", "nacs", "j1772" >>
    /\ warnings = << "nacs" >>
    /\ evConnectorTypes = << "tesla", "ccs_combo_type2", "ccs_combo_type1" >>

\* The least index at which value occurs in seq.
FirstSeen(seq, value) ==
    CHOOSE i \in { k \in 1..Len(seq) : seq[k] = value } :
        \A j \in { k \in 1..Len(seq) : seq[k] = value } : i <= j

\* C20: the canonicalized list holds the canonical images of the inputs and
\* nothing else, none of them twice, in the order of their first occurrence.
C20_DedupFirstSeen ==
    Canonicalized =>
        LET types == connectorTypes[1]
            images == [i \in 1..Len(types) |-> CanonicalImage(types[i])]
            out == evConnectorTypes
        IN  /\ RangeOf(out) = RangeOf(images)
            /\ \A i, j \in 1..Len(out) : i # j => out[i] # out[j]
            /\ \A i, j \in 1..Len(out) :
                  i < j => FirstSeen(images, out[i]) < FirstSeen(images, out[j])

\* C20 witness: a repeated value with another one in between, under two
\* spellings.
C20_Witness ==
    /\ Canonicalized
    /\ connectorTypes[1] = << "type2", "chademo", "ccs_type2" >>
    /\ evConnectorTypes = << "ccs_combo_type2", "chademo" >>

\* C21: canonicalizing a canonicalized connector type changes nothing: the
\* callback applied to its own value returns that value, for every type of
\* the request, and the canonicalized list canonicalizes to itself.
C21_Idempotent ==
    Canonicalized =>
        /\ \A i \in 1..Len(connectorTypes[1]) :
              LET once == MapConnectorType(connectorTypes[1][i]).value
              IN  MapConnectorType(once).value = once
        /\ ValidConnectorTypes(evConnectorTypes) = evConnectorTypes

\* C21 witness: an alias, an unknown type and a padded canonical name have
\* been canonicalized.
C21_Witness ==
    /\ Canonicalized
    /\ connectorTypes[1] = << "j1772", "nacs", "tesla " >>
    /\ evConnectorTypes = << "ccs_combo_type1", "ccs_combo_type2", "tesla" >>

\* ------------------------------------------------------- map view zoom

\* The zoom the threshold table gives: 4 for a distance above every
\* threshold, one more for each threshold the distance does not exceed.
TableZoom(d) == 4 + Cardinality({ t \in ZoomThresholds : ~(d > t) })

\* C22: the zoom calculated for a distance is the one of the threshold table
\* (>1000 km 4, >500 5, >250 6, >100 7, >50 8, >25 9, >10 10, >5 11, >2 12,
\* >1 13, >0.5 14, else 15), an integer from 4 to 15, and a zoom calculated
\* for a greater distance than the one before is not greater.
C22_ZoomLevel ==
    [][distance' # <<>> =>
          /\ pageMapZoom' \in 4..15
          /\ pageMapZoom' = TableZoom(distance'[1])
          /\ (distance # <<>> /\ distance[1] < distance'[1]) =>
                 pageMapZoom' <= pageMapZoom]_vars

\* C22 witness: the zoom for a distance just above 1000 km has been
\* calculated.
C22_Witness ==
    /\ distance = << 10001 >>
    /\ pageMapZoom = 4

\* ------------------------------------------- viewport synchronisation

\* A station query for the centre c is on its way.
FetchingFor(c) == \E q \in InFlight : q.center = c

\* The debounce timer of a mounted component is pending for the centre c,
\* armed by viewport change number n.
PendingFor(c, n) ==
    /\ phase = "mounted"
    /\ nMoves = n
    /\ debounceTimer # <<>>
    /\ debounceTimer[1].center = c

\* C23: whenever the debounce timer of a mounted component is pending for a
\* viewport change to the centre c, a station query for c is on its way at
\* some later time, unless a further viewport change arrives or the
\* component is unmounted.
C23_EventualFetch ==
    \A c \in Centers, n \in 0..MaxMoves :
        PendingFor(c, n) ~>
            (FetchingFor(c) \/ nMoves # n \/ phase = "unmounted")

\* This step issues the station query q (a query enters inflight unmarked;
\* the stale mark is put on queries already there).
Issues(q) == ~q.stale /\ CopiesIn(q, inflight') > CopiesIn(q, inflight)

\* C24: a step that issues an immediate query leaves no debounce timer
\* pending (it arms none and cancels the pending one), and a debounced query
\* is issued only by the pending timer, for that timer's centre, as the timer
\* goes away: a timer that an immediate request cancelled issues nothing.
C24_ImmediateCancels ==
    [][\/ inflight' = inflight
       \/ \A q \in BagToSet(inflight') :
             Issues(q) =>
                IF q.immediate
                THEN debounceTimer' = <<>>
                ELSE /\ debounceTimer # <<>>
                     /\ debounceTimer[1].center = q.center
                     /\ debounceTimer' = <<>>]_vars

\* An immediate request (the effect re-run after a merge) has cancelled the
\* timer of a viewport change: that change's loadingTimer is still pending,
\* which it cannot be once its debounce timer has fired.
C24_Witness ==
    /\ phase = "mounted"
    /\ debounceTimer = <<>>
    /\ loadingTimers > 0
    /\ stationsCache # EmptyCache
    /\ \E q \in InFlight : q.immediate /\ q.closure = stationsCache

\* The first station of the batch with the cache key k.
FirstInBatch(batch, k) ==
    batch[CHOOSE i \in DOMAIN batch :
             /\ CacheKey(batch[i]) = k
             /\ \A j \in 1..(i - 1) : CacheKey(batch[j]) # k]

\* C25: when a mounted component merges a fetched batch, every cache key of
\* the batch that the merge stores (one absent from the cache the callback
\* closed over) holds the first station of the batch with that key.
C25_FirstInBatch ==
    [][\A q \in InFlight :
          Completes(q) =>
             \A o \in Outcomes :
                (phase = "mounted" /\ Response(q, o)) =>
                   LET batch == FetchChargingStations(o) IN
                   \A i \in DOMAIN batch :
                      LET k == CacheKey(batch[i]) IN
                      k \notin DOMAIN q.closure =>
                         stationsCache'[k] = FirstInBatch(batch, k)]_vars

\* C28: the props being fixed, an immediate query is issued by the mount and
\* by no later step of the instance (no response, cache update or viewport
\* change issues one).
C28_MountFetchOnce ==
    [][\A q \in BagToSet(inflight') :
          (Issues(q) /\ q.immediate) => IsMount]_vars

\* Nothing is left to happen for the loading indicator: no query in flight,
\* no debounce timer and no loadingTimer pending.
Quiescent ==
    /\ NumInFlight = 0
    /\ debounceTimer = <<>>
    /\ loadingTimers = 0

\* C29: in every quiescent state of a mounted component isLoading is false.
C29_LoadingQuiescence ==
    (phase = "mounted" /\ Quiescent) => ~isLoading

\* ------------------------------------------------- route calculations

\* C26: the result of an earlier route request never replaces the result of
\* a later one: whenever a response is stored, it is that of a request made
\* after the request whose result was stored before.
C26_RouteSupersession ==
    [][routeCall' # routeCall => routeCall' > routeCall]_vars

\* This step is the continuation of a route calculation that got a transport
\* failure or a response without routes.
RouteCalculationFails ==
    /\ pendingCalls' # pendingCalls
    /\ pendingCalls' \subseteq pendingCalls
    /\ \/ IsTransportFailure(providerResponse'[1])
       \/ HasNoRoutes(providerResponse'[1])

\* C27: a route calculation that ends with a transport failure or without a
\* route leaves the stored route as it was, sets a route error message,
\* clears the calculating flag and starts no further calculation.
C27_FailureKeepsRoute ==
    [][RouteCalculationFails =>
          /\ route' = route
          /\ routeCall' = routeCall
          /\ routeError' # NoRouteError
          /\ isCalculatingRoute' = FALSE
          /\ nRouteCalls' = nRouteCalls
          /\ routePending' = routePending - 1]_vars

\* C27 witness: a route is stored, and the calculation after it has failed or
\* found no route: the route is still there, with the message.
C27_Witness ==
    /\ route # <<>>
    /\ routeCall = 1
    /\ nRouteCalls = 2
    /\ pendingCalls = {}
    /\ providerResponse # <<>>
    /\ IsTransportFailure(providerResponse[1])
    /\ routeError = NoRouteMessage
    /\ ~isCalculatingRoute

\* ------------------------------------------------------ search sessions

\* This step completes a retrieve request.
RetrieveCompletes ==
    /\ retrieveCalls' # retrieveCalls
    /\ retrieveCalls' \subseteq retrieveCalls

\* C30: every retrieve request carries the session token of the suggest
\* request that produced the suggestion it retrieves, and the session token
\* changes only in a step that completes a retrieve request.
C30_SessionGrouping ==
    [][/\ \A call \in retrieveCalls' : call.token = call.suggestion.token
       /\ sessionToken' # sessionToken => RetrieveCompletes]_vars

\* The retrieve requests of the two inputs have interleaved: one input's
\* retrieve carries a token newer than the one its suggestion came with,
\* after the other input's retrieve has succeeded.
TwoInputsInterleave ==
    \E call \in retrieveCalls :
        /\ call.token # call.suggestion.token
        /\ \E other \in SearchInputs \ {call.input} :
              selectedLocation[other] # <<>>
        /\ selectedLocation[call.input] = <<>>

====
